---- MODULE Spec2Model ----
(***************************************************************************)
(* lzma-versions.py: import of LZMA SDK release archives into a git        *)
(* repository, one commit and one tag per release.                         *)
(*                                                                         *)
(* A version identifier ('%.2f' % (digits / 100.0)) is represented by the  *)
(* integer value of the digit group of the archive name (1801 for          *)
(* "18.01"); the float sort key of line 64 orders identifiers as these     *)
(* integers.  A text line is its leading indentation and its sequence of   *)
(* whitespace separated tokens.                                            *)
(***************************************************************************)
EXTENDS Integers, Sequences, FiniteSets, TLC

VARIABLES files, docs, staging, args, status, pc, i, histories, tags,
          repo_changed, commitMsgFile, repo, out, calls, start

vars == <<files, docs, staging, args, status, pc, i, histories, tags,
          repo_changed, commitMsgFile, repo, out, calls, start>>

(* ------------------------------ bounds --------------------------------- *)

\* longest changelog document drawn by the parser specification
MaxLines == 5
\* deepest leading indentation of a drawn changelog line
MaxIndent == 1
\* runs of the program a behaviour holds
MaxRuns == 2

(* --------------------------- tokens and lines -------------------------- *)

Word(s) == [t |-> "word", n |-> 0, s |-> s]
VerTok(v) == [t |-> "ver", n |-> v, s |-> ""]
DateTok(d) == [t |-> "date", n |-> 0, s |-> d]

Line(ind, ws) == [indent |-> ind, words |-> ws]
BlankLine == Line(0, <<>>)

\* str.lower() on the words the documents of the model use
LowerStr(s) ==
  CASE s = "HISTORY" -> "history"
    [] s = "LZMA" -> "lzma"
    [] s = "Version" -> "version"
    [] s = "Fixed" -> "fixed"
    [] OTHER -> s

Lower(tok) == [tok EXCEPT !.s = LowerStr(tok.s)]

\* line.strip().lower().split()
LowerSplit(line) == [k \in 1..Len(line.words) |-> Lower(line.words[k])]

\* the banner test of ReadHistory
IsBanner(line) ==
  LowerSplit(line) = <<Word("history"), Word("of"), Word("the"), Word("lzma")>>

\* historyVersionRe.match(line): optional "Version", a <major>.<minor>
\* token, optional filler, a date token at the end of the line
historyVersionRe(line) ==
  LET w == LowerSplit(line)
      b == IF Len(w) > 0 /\ w[1] = Word("version") THEN Tail(w) ELSE w
      ok == Len(b) >= 2 /\ b[1].t = "ver" /\ b[Len(b)].t = "date"
  IN [matched |-> ok,
      g1 |-> IF ok THEN b[1].n ELSE 0,
      g2 |-> IF ok THEN b[Len(b)].s ELSE ""]

\* history = filter(lambda s: len(s) > 0, map(rstrip, readlines))
NonBlank(lines) == SelectSeq(lines, LAMBDA l : Len(l.words) > 0)

\* len(line): the indentation and at least one character per token
LineLen(l) == l.indent + Len(l.words)

Min(a, b) == IF a < b THEN a ELSE b

RECURSIVE CommonIndent(_, _, _)
CommonIndent(lines, k, acc) ==
  IF k > Len(lines) THEN acc
  ELSE CommonIndent(lines, k + 1, Min(acc, lines[k].indent))

StripCommonIndentation(lines) ==
  LET commonIndent == CommonIndent(lines, 1, LineLen(lines[1]))
  IN [k \in 1..Len(lines) |-> [lines[k] EXCEPT !.indent = @ - commonIndent]]

\* historyVersion is None
None == 0

\* HistoryDone keeping the first entry recorded for a subject
HistoryDoneFirstWins(entries, historyVersion, historyDate, versionLog) ==
  IF historyVersion = None \/ historyVersion \in DOMAIN entries THEN entries
  ELSE [s \in DOMAIN entries \cup {historyVersion} |->
          IF s = historyVersion
          THEN [date |-> historyDate, log |-> StripCommonIndentation(versionLog)]
          ELSE entries[s]]

\* histories[version][historyVersion] = {'date': ..., 'log': ...}; the log
\* is the iterator map(...) returns: the lines it has still to yield
HistoryDone(entries, historyVersion, historyDate, versionLog) ==
  IF historyVersion = None THEN entries
  ELSE [s \in DOMAIN entries \cup {historyVersion} |->
          IF s = historyVersion
          THEN [date |-> historyDate, log |-> StripCommonIndentation(versionLog)]
          ELSE entries[s]]

NoEntries == [s \in {} |-> [date |-> "", log |-> <<>>]]

\* the catalog test without its assertion
InVersionsAnything(historyVersion, vs) == TRUE

\* assert historyVersion in versions
InVersions(historyVersion, vs) == historyVersion \in vs

\* the loop of ReadHistory over the non-blank lines, from line k on
RECURSIVE ReadHistoryLoop(_, _, _, _)
ReadHistoryLoop(history, k, st, vs) ==
  IF k > Len(history) \/ st.failed THEN st
  ELSE IF IsBanner(history[k]) THEN st
  ELSE
    LET line == history[k]
        mo == historyVersionRe(line)
    IN IF mo.matched
       THEN ReadHistoryLoop(history, k + 1,
              [historyVersion |-> mo.g1,
               historyDate |-> mo.g2,
               versionLog |-> <<line>>,
               entries |-> HistoryDone(st.entries, st.historyVersion,
                                       st.historyDate, st.versionLog),
               failed |-> ~InVersions(mo.g1, vs)], vs)
       ELSE IF st.historyVersion # None
       THEN ReadHistoryLoop(history, k + 1,
              [st EXCEPT !.versionLog = Append(@, line)], vs)
       ELSE ReadHistoryLoop(history, k + 1, st, vs)

\* ReadHistory on the lines of a changelog document: whether it returned
\* (no assertion failed) and the entries it stored
ReadHistory(lines, vs) ==
  LET st == ReadHistoryLoop(NonBlank(lines), 1,
              [historyVersion |-> None, historyDate |-> "",
               versionLog |-> <<>>, entries |-> NoEntries, failed |-> FALSE], vs)
  IN IF st.failed THEN [ok |-> FALSE, entries |-> st.entries]
     ELSE [ok |-> TRUE,
           entries |-> HistoryDone(st.entries, st.historyVersion,
                                   st.historyDate, st.versionLog)]

(* ----------------------- catalog and documents -------------------------- *)

\* digit groups of the release archives the model draws its catalogs from:
\* lzma465.tar.bz2, lzma1800.7z, lzma1801.7z
AllVersions == {465, 1800, 1801}

\* archives[version]: the archive file name, its digit group and extension
ArchiveName(v) == [digits |-> v, ext |-> IF v < 900 THEN "tar.bz2" ELSE "7z"]

RECURSIVE Sorted(_)
Sorted(S) ==
  IF S = {} THEN <<>>
  ELSE LET m == CHOOSE x \in S : \A y \in S : x <= y
       IN <<m>> \o Sorted(S \ {m})

\* versions = sorted(archives.keys(), key=float)
versions == Sorted(files)

knownSdkDates ==
  (462 :> "2008-12-02") @@ (907 :> "2009-08-29") @@ (910 :> "2009-12-22") @@
  (920 :> "2010-11-18") @@ (922 :> "2011-04-19") @@ (1505 :> "2015-06-14") @@
  (1506 :> "2015-08-16") @@ (1507 :> "2015-09-21") @@ (1508 :> "2015-10-05") @@
  (1510 :> "2015-11-01") @@ (1511 :> "2015-11-14") @@ (1513 :> "2015-12-31") @@
  (1514 :> "2015-12-31") @@ (1800 :> "2018-01-10") @@ (1801 :> "2018-01-28")

\* the heading date the changelog documents give a release
HistDate(v) ==
  CASE v = 465 -> "2009-02-03"
    [] v = 1800 -> "2018-01-10"
    [] v = 1801 -> "2018-01-28"
    [] OTHER -> "2000-01-01"

Heading(v, d, ind) == Line(ind, <<VerTok(v), DateTok(d)>>)

\* the changelog entry of release u as its own release wrote it
GoodEntry(u) ==
  <<Heading(u, HistDate(u), 0), Line(0, <<Word("-"), Word("Fixed"), Word("bug")>>)>>

\* a transcription of it with the date and one word changed
AlteredEntry(u) ==
  <<Heading(u, "2018-01-09", 0), Line(0, <<Word("-"), Word("Fixed"), Word("issue")>>)>>

BannerLine == Line(0, <<Word("HISTORY"), Word("of"), Word("the"), Word("LZMA")>>)

RECURSIVE OlderEntries(_, _)
OlderEntries(S, altered) ==
  IF S = {} THEN <<>>
  ELSE LET m == CHOOSE x \in S : \A y \in S : x >= y
       IN (IF altered THEN AlteredEntry(m) ELSE GoodEntry(m))
          \o OlderEntries(S \ {m}, altered)

NoDoc == [present |-> FALSE, lines |-> <<>>]
Doc(ls) == [present |-> TRUE, lines |-> ls]

\* history.txt of release v: its own entry, the entries of the older
\* releases (newest first), the banner and the text after it
FullDoc(v, altered) ==
  Doc(GoodEntry(v) \o <<BlankLine>>
      \o OlderEntries({u \in AllVersions : u < v}, altered)
      \o <<BannerLine, Line(1, <<Word("2001-2008:"), Word("Improvements")>>)>>)

SelfDoc(v) == Doc(GoodEntry(v))

DocChoices(v) ==
  IF \A u \in AllVersions : u >= v
  THEN {NoDoc, FullDoc(v, FALSE)}
  ELSE IF \A u \in AllVersions : u <= v
  THEN {NoDoc, FullDoc(v, FALSE), FullDoc(v, TRUE)}
  ELSE {NoDoc, SelfDoc(v), FullDoc(v, FALSE)}

\* lines the parser specification draws its documents from
LineChoices ==
  {Heading(465, "2009-02-03", 0), Heading(465, "2009-02-04", MaxIndent),
   Heading(1801, "2018-01-28", 0),
   Line(0, <<Word("Version"), VerTok(1800), Word("beta"), DateTok("2018-01-10")>>),
   Line(0, <<Word("-"), Word("Fixed"), Word("bug")>>),
   Line(MaxIndent, <<Word("-"), Word("new"), Word("API")>>),
   BannerLine}

RECURSIVE SeqsUpTo(_, _)
SeqsUpTo(S, n) ==
  IF n = 0 THEN {<<>>}
  ELSE LET shorter == SeqsUpTo(S, n - 1)
       IN shorter \cup {Append(q, x) : q \in shorter, x \in S}

(* ------------------------------ filesystem ----------------------------- *)

\* the changelog document ReadHistory finds in the staging directory
StagedDoc(v) ==
  IF staging[v] \in {"full", "partial"} THEN docs[v] ELSE NoDoc

EmptyTree == [version |-> None, state |-> "empty"]

\* the content of GetDirectoryForVersion(version)
TreeOf(v) ==
  IF staging[v] \in {"absent", "empty"} THEN EmptyTree
  ELSE [version |-> v, state |-> staging[v]]

HeadTree ==
  IF repo.commits = <<>> THEN EmptyTree
  ELSE repo.commits[Len(repo.commits)].tree

NoFile == [exists |-> FALSE, text |-> <<>>]

EmptyRepo ==
  [dir |-> FALSE, git |-> FALSE, tree |-> EmptyTree, index |-> EmptyTree,
   commits |-> <<>>, tags |-> {}]

(* ------------------------ dates and commit messages -------------------- *)

NoDate == "None"
KeyError == "KeyError"

\* GetDateForVersion looking into the history before the override table
GetDateForVersionHistoryFirst(version) ==
  LET last == versions[Len(versions)]
  IN IF last \in DOMAIN histories /\ version \in DOMAIN histories[last]
     THEN histories[last][version].date
     ELSE IF version \in DOMAIN knownSdkDates THEN knownSdkDates[version]
     ELSE NoDate

GetDateForVersion(version) ==
  LET last == versions[Len(versions)]
  IN IF version \in DOMAIN knownSdkDates THEN knownSdkDates[version]
     ELSE IF last \notin DOMAIN histories THEN KeyError
     ELSE IF version \in DOMAIN histories[last]
     THEN histories[last][version].date
     ELSE NoDate

HashLine(alg, version) ==
  Line(0, <<Word(alg), [t |-> "digest", n |-> version, s |-> alg],
            [t |-> "file", n |-> version, s |-> ArchiveName(version).ext]>>)

\* cl.insert(1, '') when a second line exists and is not blank
InsertBlank(cl) ==
  IF Len(cl) > 1 /\ Len(cl[2].words) # 0
  THEN <<cl[1], BlankLine>> \o Tail(cl)
  ELSE cl

\* GetChangelog(version): whether it raised, the message it returned (the
\* lines '\n'.join puts together) and histories after the call, the log
\* iterator it read being exhausted
GetChangelog(version) ==
  LET last == versions[Len(versions)]
      tail == <<BlankLine, HashLine("md5:", version), HashLine("sha1:", version)>>
      date == GetDateForVersion(version)
  IN IF last \notin DOMAIN histories
     THEN [raised |-> TRUE, msg |-> <<>>, histories |-> histories]
     ELSE IF version \in DOMAIN histories[last]
     THEN [raised |-> FALSE,
           msg |-> InsertBlank(histories[last][version].log) \o tail,
           histories |-> [histories EXCEPT ![last][version].log = <<>>]]
     ELSE [raised |-> FALSE,
           msg |-> <<IF date # NoDate
                     THEN Line(0, <<VerTok(version), DateTok(date)>>)
                     ELSE Line(0, <<VerTok(version)>>)>> \o tail,
           histories |-> histories]

\* ' '.join(entry).lower().split() where entry is the dictionary
\* {'date': ..., 'log': ...}: joining a dictionary joins its keys
JoinLowerSplit(entry) == <<Word("date"), Word("log")>>

\* whether every assertion of CheckForHistoryInconsistencies holds
HistoriesConsistent ==
  \A a \in 1..Len(versions) : \A b \in (a + 1)..Len(versions) :
    LET version == versions[a]
        version2 == versions[b]
    IN (/\ version \in DOMAIN histories
        /\ version2 \in DOMAIN histories
        /\ version \in DOMAIN histories[version]
        /\ version \in DOMAIN histories[version2])
       => JoinLowerSplit(histories[version][version])
          = JoinLowerSplit(histories[version2][version])

(* -------------------------------- runs --------------------------------- *)

NoHistories == [v \in {} |-> NoEntries]

Init ==
  /\ files = {}
  /\ docs = [v \in AllVersions |-> NoDoc]
  /\ staging = [v \in AllVersions |-> "absent"]
  /\ args = [extract_all |-> FALSE, verbose |-> FALSE]
  /\ status = "idle"
  /\ pc = "exit"
  /\ i = 1
  /\ histories = NoHistories
  /\ tags = {}
  /\ repo_changed = FALSE
  /\ commitMsgFile = NoFile
  /\ repo = EmptyRepo
  /\ out = {}
  /\ calls = {}
  /\ start = [runs |-> 0, files |-> {}, repo |-> EmptyRepo, ok |-> FALSE,
              allOk |-> TRUE, plain |-> TRUE]

Running(p) == status = "running" /\ pc = p

InLoop(p) == Running(p) /\ i <= Len(versions)

\* the process starts: module level code of lines 27-64, ReadCmdLineArgs.
\* Archives, each with the changelog document it holds, may have been added
\* to the directory since the last run.
StartRun ==
  /\ status # "running"
  /\ start.runs < MaxRuns
  /\ \E more \in SUBSET (AllVersions \ files) :
       /\ files' = files \cup more
       /\ \E new \in [more -> UNION {DocChoices(v) : v \in more}] :
            /\ \A v \in more : new[v] \in DocChoices(v)
            /\ docs' = [v \in AllVersions |->
                          IF v \in more THEN new[v] ELSE docs[v]]
  /\ \E ea \in BOOLEAN, vb \in BOOLEAN :
       /\ args' = [extract_all |-> ea, verbose |-> vb]
       /\ start' = [runs |-> start.runs + 1, files |-> files,
                    repo |-> repo, ok |-> status = "done",
                    allOk |-> start.allOk /\ status # "aborted",
                    plain |-> start.plain /\ ~ea]
  /\ status' = "running"
  /\ pc' = "ExtractArchives"
  /\ i' = 1
  /\ histories' = NoHistories
  /\ tags' = {}
  /\ repo_changed' = FALSE
  /\ out' = {}
  /\ calls' = {}
  /\ UNCHANGED <<staging, commitMsgFile, repo>>

(* --------------------------- ExtractArchives --------------------------- *)

ExtractArchivesBegin ==
  /\ Running("ExtractArchives")
  /\ staging' = IF args.extract_all
                THEN [v \in AllVersions |-> "absent"]
                ELSE staging
  /\ pc' = "extract"
  /\ i' = 1
  /\ UNCHANGED <<files, docs, args, status, histories, tags, repo_changed,
                 commitMsgFile, repo, out, calls, start>>

\* os.path.exists(dst): continue
ExtractSkip ==
  /\ InLoop("extract")
  /\ staging[versions[i]] # "absent"
  /\ i' = i + 1
  /\ UNCHANGED <<files, docs, staging, args, status, pc, histories, tags,
                 repo_changed, commitMsgFile, repo, out, calls, start>>

ExtractOk ==
  /\ InLoop("extract")
  /\ staging[versions[i]] = "absent"
  /\ staging' = [staging EXCEPT ![versions[i]] = "full"]
  /\ i' = i + 1
  /\ UNCHANGED <<files, docs, args, status, pc, histories, tags,
                 repo_changed, commitMsgFile, repo, out, calls, start>>

\* what Archive.extractall leaves behind when it raises: zipfile and
\* tarfile assert the format before they create dst, the 7z branch makes
\* dst first; either may stop after some members
ExtractLeftovers(v) ==
  IF ArchiveName(v).ext = "7z" THEN {"empty", "partial"}
  ELSE {"absent", "partial"}

ExtractFail ==
  /\ InLoop("extract")
  /\ staging[versions[i]] = "absent"
  /\ \E left \in ExtractLeftovers(versions[i]) :
       staging' = [staging EXCEPT ![versions[i]] = left]
  /\ status' = "aborted"
  /\ UNCHANGED <<files, docs, args, pc, i, histories, tags,
                 repo_changed, commitMsgFile, repo, out, calls, start>>

ExtractArchivesEnd ==
  /\ Running("extract")
  /\ i > Len(versions)
  /\ pc' = "ReadHistories"
  /\ i' = 1
  /\ UNCHANGED <<files, docs, staging, args, status, histories, tags,
                 repo_changed, commitMsgFile, repo, out, calls, start>>

(* ----------------------------- ReadHistories --------------------------- *)

\* neither history.txt nor DOC/lzma-history.txt exists: return
ReadHistoryNoFile ==
  /\ InLoop("ReadHistories")
  /\ ~StagedDoc(versions[i]).present
  /\ i' = i + 1
  /\ UNCHANGED <<files, docs, staging, args, status, pc, histories, tags,
                 repo_changed, commitMsgFile, repo, out, calls, start>>

SetHistory(version, entries) ==
  [v \in DOMAIN histories \cup {version} |->
     IF v = version THEN entries ELSE histories[v]]

ReadHistoryOk ==
  /\ InLoop("ReadHistories")
  /\ StagedDoc(versions[i]).present
  /\ LET r == ReadHistory(StagedDoc(versions[i]).lines, files)
     IN /\ r.ok
        /\ histories' = SetHistory(versions[i], r.entries)
  /\ i' = i + 1
  /\ UNCHANGED <<files, docs, staging, args, status, pc, tags,
                 repo_changed, commitMsgFile, repo, out, calls, start>>

\* print('Need', historyVersion); assert historyVersion in versions
ReadHistoryNeed ==
  /\ InLoop("ReadHistories")
  /\ StagedDoc(versions[i]).present
  /\ LET r == ReadHistory(StagedDoc(versions[i]).lines, files)
     IN /\ ~r.ok
        /\ histories' = SetHistory(versions[i], r.entries)
  /\ out' = out \cup {"Need"}
  /\ status' = "aborted"
  /\ UNCHANGED <<files, docs, staging, args, pc, i, tags,
                 repo_changed, commitMsgFile, repo, calls, start>>

ReadHistoriesRead ==
  /\ Running("ReadHistories")
  /\ i > Len(versions)
  /\ pc' = "CheckForHistoryInconsistencies"
  /\ i' = 1
  /\ UNCHANGED <<files, docs, staging, args, status, histories, tags,
                 repo_changed, commitMsgFile, repo, out, calls, start>>

CheckForHistoryInconsistencies ==
  /\ Running("CheckForHistoryInconsistencies")
  /\ IF HistoriesConsistent
     THEN pc' = "dates" /\ status' = status
     ELSE pc' = pc /\ status' = "aborted"
  /\ UNCHANGED <<files, docs, staging, args, i, histories, tags,
                 repo_changed, commitMsgFile, repo, out, calls, start>>

\* the dates the last loop of ReadHistories asks for
ResolvedDates == {GetDateForVersion(versions[k]) : k \in 1..Len(versions)}

ReadHistoriesDated ==
  /\ Running("dates")
  /\ ResolvedDates \cap {NoDate, KeyError} = {}
  /\ pc' = IF args.verbose THEN "PrintSdkVersions" ELSE "InitializeRepository"
  /\ i' = 1
  /\ UNCHANGED <<files, docs, staging, args, status, histories, tags,
                 repo_changed, commitMsgFile, repo, out, calls, start>>

\* print('No date found ...'); assert date is not None, or the KeyError
\* histories[versions[-1]] raises
ReadHistoriesNoDate ==
  /\ Running("dates")
  /\ ResolvedDates \cap {NoDate, KeyError} # {}
  /\ out' = IF NoDate \in ResolvedDates THEN out \cup {"No date found"} ELSE out
  /\ status' = "aborted"
  /\ UNCHANGED <<files, docs, staging, args, pc, i, histories, tags,
                 repo_changed, commitMsgFile, repo, calls, start>>

(* --------------------------- PrintSdkVersions -------------------------- *)

PrintVersion ==
  /\ InLoop("PrintSdkVersions")
  /\ LET r == GetChangelog(versions[i])
     IN /\ ~r.raised
        /\ histories' = r.histories
        /\ calls' = calls \cup {[version |-> versions[i], msg |-> r.msg]}
  /\ i' = i + 1
  /\ UNCHANGED <<files, docs, staging, args, status, pc, tags,
                 repo_changed, commitMsgFile, repo, out, start>>

PrintVersionRaises ==
  /\ InLoop("PrintSdkVersions")
  /\ GetChangelog(versions[i]).raised
  /\ status' = "aborted"
  /\ UNCHANGED <<files, docs, staging, args, pc, i, histories, tags,
                 repo_changed, commitMsgFile, repo, out, calls, start>>

PrintSdkVersionsEnd ==
  /\ Running("PrintSdkVersions")
  /\ i > Len(versions)
  /\ pc' = "InitializeRepository"
  /\ i' = 1
  /\ UNCHANGED <<files, docs, staging, args, status, histories, tags,
                 repo_changed, commitMsgFile, repo, out, calls, start>>

(* ---------------------------- UpdateRepository ------------------------- *)

InitializeRepository ==
  /\ Running("InitializeRepository")
  /\ repo' = [repo EXCEPT !.dir = TRUE, !.git = TRUE]
  /\ pc' = "ReadTags"
  /\ UNCHANGED <<files, docs, staging, args, status, i, histories, tags,
                 repo_changed, commitMsgFile, out, calls, start>>

\* git init returns non-zero
InitializeRepositoryFails ==
  /\ Running("InitializeRepository")
  /\ ~repo.git
  /\ repo' = [repo EXCEPT !.dir = TRUE]
  /\ status' = "aborted"
  /\ UNCHANGED <<files, docs, staging, args, pc, i, histories, tags,
                 repo_changed, commitMsgFile, out, calls, start>>

\* ReadTags losing the output of git tag
ReadTagsNothing ==
  /\ Running("ReadTags")
  /\ tags' = {}
  /\ pc' = "AddSdkVersions"
  /\ i' = 1
  /\ UNCHANGED <<files, docs, staging, args, status, histories,
                 repo_changed, commitMsgFile, repo, out, calls, start>>

ReadTags ==
  /\ Running("ReadTags")
  /\ tags' = repo.tags
  /\ pc' = "AddSdkVersions"
  /\ i' = 1
  /\ UNCHANGED <<files, docs, staging, args, status, histories,
                 repo_changed, commitMsgFile, repo, out, calls, start>>

\* GIT_AUTHOR_DATE: noon UTC of the resolved date, else git's own clock
AuthorDate(date) ==
  IF date # NoDate THEN [day |-> date, time |-> "12:00:00 +0000"]
  ELSE [day |-> "now", time |-> "now"]

\* the repository after CopyVersionToRepository(version)
Copied(version) == [repo EXCEPT !.tree = TreeOf(version)]

\* ... and after git add --all
Added(version) == [repo EXCEPT !.tree = TreeOf(version), !.index = TreeOf(version)]

\* ... and after git commit -F commitMsgFile
Committed(version) ==
  [Added(version) EXCEPT !.commits =
     Append(@, [version |-> version,
                tree |-> TreeOf(version),
                msg |-> GetChangelog(version).msg,
                date |-> AuthorDate(GetDateForVersion(version))])]

\* git commit has something to commit
CanCommit(version) == TreeOf(version) # HeadTree

\* if version in tags: return
AddVersionSkip ==
  /\ InLoop("AddSdkVersions")
  /\ versions[i] \in tags
  /\ i' = i + 1
  /\ UNCHANGED <<files, docs, staging, args, status, pc, histories, tags,
                 repo_changed, commitMsgFile, repo, out, calls, start>>

\* git add --all returns non-zero
AddVersionAddFails ==
  /\ InLoop("AddSdkVersions")
  /\ versions[i] \notin tags
  /\ repo_changed' = TRUE
  /\ repo' = Copied(versions[i])
  /\ status' = "aborted"
  /\ UNCHANGED <<files, docs, staging, args, pc, i, histories, tags,
                 commitMsgFile, out, calls, start>>

\* GetChangelog raises after the message file was opened for writing
AddVersionChangelogRaises ==
  /\ InLoop("AddSdkVersions")
  /\ versions[i] \notin tags
  /\ GetChangelog(versions[i]).raised
  /\ repo_changed' = TRUE
  /\ repo' = Added(versions[i])
  /\ commitMsgFile' = [exists |-> TRUE, text |-> <<>>]
  /\ status' = "aborted"
  /\ UNCHANGED <<files, docs, staging, args, pc, i, histories, tags,
                 out, calls, start>>

\* git commit returns non-zero
AddVersionCommitFails ==
  /\ InLoop("AddSdkVersions")
  /\ versions[i] \notin tags
  /\ LET r == GetChangelog(versions[i])
     IN /\ ~r.raised
        /\ histories' = r.histories
        /\ calls' = calls \cup {[version |-> versions[i], msg |-> r.msg]}
        /\ commitMsgFile' = [exists |-> TRUE, text |-> r.msg]
  /\ repo_changed' = TRUE
  /\ repo' = Added(versions[i])
  /\ status' = "aborted"
  /\ UNCHANGED <<files, docs, staging, args, pc, i, tags, out, start>>

\* git tag returns non-zero after the commit was made
AddVersionTagFails ==
  /\ InLoop("AddSdkVersions")
  /\ versions[i] \notin tags
  /\ CanCommit(versions[i])
  /\ LET r == GetChangelog(versions[i])
     IN /\ ~r.raised
        /\ histories' = r.histories
        /\ calls' = calls \cup {[version |-> versions[i], msg |-> r.msg]}
  /\ commitMsgFile' = NoFile
  /\ repo_changed' = TRUE
  /\ repo' = Committed(versions[i])
  /\ status' = "aborted"
  /\ UNCHANGED <<files, docs, staging, args, pc, i, tags, out, start>>

AddVersionToRepository ==
  /\ InLoop("AddSdkVersions")
  /\ versions[i] \notin tags
  /\ CanCommit(versions[i])
  /\ versions[i] \notin repo.tags
  /\ LET r == GetChangelog(versions[i])
     IN /\ ~r.raised
        /\ histories' = r.histories
        /\ calls' = calls \cup {[version |-> versions[i], msg |-> r.msg]}
  /\ commitMsgFile' = NoFile
  /\ repo_changed' = TRUE
  /\ repo' = [Committed(versions[i]) EXCEPT !.tags = @ \cup {versions[i]}]
  /\ i' = i + 1
  /\ UNCHANGED <<files, docs, staging, args, status, pc, tags, out, start>>

\* git gc returns non-zero
AddSdkVersionsGcFails ==
  /\ Running("AddSdkVersions")
  /\ i > Len(versions)
  /\ repo_changed
  /\ status' = "aborted"
  /\ UNCHANGED <<files, docs, staging, args, pc, i, histories, tags,
                 repo_changed, commitMsgFile, repo, out, calls, start>>

\* AddSdkVersions returns; lines 420-421
Finish ==
  /\ Running("AddSdkVersions")
  /\ i > Len(versions)
  /\ out' = IF ~repo_changed THEN out \cup {"No new versions were found"} ELSE out
  /\ status' = "done"
  /\ pc' = "exit"
  /\ UNCHANGED <<files, docs, staging, args, i, histories, tags,
                 repo_changed, commitMsgFile, repo, calls, start>>

Next ==
  \/ StartRun
  \/ ExtractArchivesBegin
  \/ ExtractSkip
  \/ ExtractOk
  \/ ExtractFail
  \/ ExtractArchivesEnd
  \/ ReadHistoryNoFile
  \/ ReadHistoryOk
  \/ ReadHistoryNeed
  \/ ReadHistoriesRead
  \/ CheckForHistoryInconsistencies
  \/ ReadHistoriesDated
  \/ ReadHistoriesNoDate
  \/ PrintVersion
  \/ PrintVersionRaises
  \/ PrintSdkVersionsEnd
  \/ InitializeRepository
  \/ InitializeRepositoryFails
  \/ ReadTags
  \/ AddVersionSkip
  \/ AddVersionAddFails
  \/ AddVersionChangelogRaises
  \/ AddVersionCommitFails
  \/ AddVersionTagFails
  \/ AddVersionToRepository
  \/ AddSdkVersionsGcFails
  \/ Finish

Spec == Init /\ [][Next]_vars

(* ------------------------ parser specification ------------------------- *)

\* ReadHistories in a run whose catalog is 4.65 and 18.00, the staging
\* directory of 18.00 holding any changelog document of up to MaxLines lines
InitParse ==
  /\ files = {465, 1800}
  /\ \E ls \in SeqsUpTo(LineChoices, MaxLines) :
       docs = [v \in AllVersions |-> IF v = 1800 THEN Doc(ls) ELSE NoDoc]
  /\ staging = [v \in AllVersions |-> IF v \in {465, 1800} THEN "full" ELSE "absent"]
  /\ args = [extract_all |-> FALSE, verbose |-> FALSE]
  /\ status = "running"
  /\ pc = "ReadHistories"
  /\ i = 1
  /\ histories = NoHistories
  /\ tags = {}
  /\ repo_changed = FALSE
  /\ commitMsgFile = NoFile
  /\ repo = EmptyRepo
  /\ out = {}
  /\ calls = {}
  /\ start = [runs |-> 1, files |-> {}, repo |-> EmptyRepo, ok |-> FALSE,
              allOk |-> TRUE, plain |-> TRUE]

NextParse ==
  \/ ReadHistoryNoFile
  \/ ReadHistoryOk
  \/ ReadHistoryNeed
  \/ ReadHistoriesRead

SpecParse == InitParse /\ [][NextParse]_vars

(* ------------------------------ properties ----------------------------- *)

Notice == "No new versions were found"

PreUpdate ==
  {"ExtractArchives", "extract", "ReadHistories",
   "CheckForHistoryInconsistencies", "dates", "PrintSdkVersions"}

Update == {"InitializeRepository", "ReadTags", "AddSdkVersions"}

AfterRead ==
  {"CheckForHistoryInconsistencies", "dates", "PrintSdkVersions"} \cup Update

CommitVersions == [k \in 1..Len(repo.commits) |-> repo.commits[k].version]

CommittedVersions == {repo.commits[k].version : k \in 1..Len(repo.commits)}

SetMax(S) == CHOOSE x \in S : \A y \in S : y <= x
SetMin(S) == CHOOSE x \in S : \A y \in S : x <= y

\* position of the banner line in the non-blank lines h, or past their end
Stop(h) ==
  LET banners == {k \in 1..Len(h) : IsBanner(h[k])}
  IN IF banners = {} THEN Len(h) + 1 ELSE SetMin(banners)

HeadingsBefore(h) == {k \in 1..(Stop(h) - 1) : historyVersionRe(h[k]).matched}

HeadsOf(h, s) == {k \in HeadingsBefore(h) : historyVersionRe(h[k]).g1 = s}

Subjects(h) == {historyVersionRe(h[k]).g1 : k \in HeadingsBefore(h)}

\* the lines from the last heading for s to the next heading, the banner
\* or the end of h
SegmentOf(h, s) ==
  LET k == SetMax(HeadsOf(h, s))
      later == {j \in HeadingsBefore(h) : j > k}
      e == IF later = {} THEN Stop(h) ELSE SetMin(later)
  IN SubSeq(h, k, e - 1)

\* body is seg with the indentation all lines of seg share removed
SameButCommonIndent(body, seg) ==
  /\ Len(body) = Len(seg)
  /\ \A j \in 1..Len(seg) : body[j].words = seg[j].words
  /\ \E c \in 0..seg[1].indent :
       \A j \in 1..Len(seg) : body[j].indent + c = seg[j].indent
  /\ \E j \in 1..Len(seg) : body[j].indent = 0

AllHeadingsKnown(h) ==
  \A k \in 1..Len(h) :
    historyVersionRe(h[k]).matched => historyVersionRe(h[k]).g1 \in files

\* the non-blank lines of the changelog document staged for release v
StagedLines(v) == NonBlank(StagedDoc(v).lines)

Last == versions[Len(versions)]

RECURSIVE Tokens(_)
Tokens(lines) ==
  IF lines = <<>> THEN <<>> ELSE LowerSplit(Head(lines)) \o Tokens(Tail(lines))

\* C1: after any sequence of successful runs over a growing archive set the
\* repository holds exactly one commit and one tag per catalog version, the
\* commits in ascending version order.
C1_OneCommitPerVersionAscending ==
  (status = "done" /\ start.allOk)
    => (CommitVersions = versions /\ repo.tags = files)

\* C2: a run against the archive set and the repository a successful run
\* left creates no commit and no tag, and reports the notice when it ends.
C2_SecondRunAddsNothing ==
  (start.ok /\ files = start.files)
    => /\ repo.commits = start.repo.commits
       /\ repo.tags = start.repo.tags
       /\ status = "done" => Notice \in out

C2_Witness ==
  /\ status = "done"
  /\ start.ok
  /\ files = start.files
  /\ Len(repo.commits) >= 2
  /\ args.verbose
  /\ Notice \in out

\* C3: whenever a run has ended, normally or by an abort, the versions with
\* a commit are the versions with a tag and form a prefix of the ascending
\* version list.
C3_CommittedIsTaggedPrefix ==
  status \in {"done", "aborted"}
    => /\ CommittedVersions = repo.tags
       /\ \E n \in 0..Len(versions) : repo.tags = {versions[k] : k \in 1..n}

\* C4: the run gets past CheckForHistoryInconsistencies only if any two
\* recorded entries for the same subject version have equal lower-cased
\* token sequences.
C4_InconsistentHistoriesAbort ==
  (status = "running" /\ pc = "dates")
    => \A r1 \in DOMAIN histories, r2 \in DOMAIN histories :
         \A s \in DOMAIN histories[r1] \cap DOMAIN histories[r2] :
           Tokens(histories[r1][s].log) = Tokens(histories[r2][s].log)

\* C5: GetDateForVersion returns the override date when there is one, also
\* when the history gives another; otherwise the date of the last heading
\* for the version in the most recent release's changelog; with neither the
\* run does not get past ReadHistories, and every commit carries a resolved
\* date at noon UTC.
C5_DateResolution ==
  /\ (status = "running" /\ pc \in AfterRead)
       => LET h == StagedLines(Last)
          IN /\ \A v \in files \cap DOMAIN knownSdkDates :
                  GetDateForVersion(v) = knownSdkDates[v]
             /\ \A v \in files \ DOMAIN knownSdkDates :
                  LET heads == HeadsOf(h, v)
                  IN IF heads # {}
                     THEN GetDateForVersion(v)
                          = historyVersionRe(h[SetMax(heads)]).g2
                     ELSE pc \in {"CheckForHistoryInconsistencies", "dates"}
  /\ \A k \in 1..Len(repo.commits) :
       LET c == repo.commits[k]
       IN /\ c.date.time = "12:00:00 +0000"
          /\ c.date.day \notin {NoDate, KeyError, "now"}
          /\ c.version \in DOMAIN knownSdkDates
               => c.date.day = knownSdkDates[c.version]

C5_Witness ==
  /\ status = "running"
  /\ Len(repo.commits) = 2
  /\ repo.commits[1].version = 465
  /\ repo.commits[2].version = 1800
  /\ Last \in DOMAIN histories
  /\ 1800 \in DOMAIN histories[Last]
  /\ histories[Last][1800].date # repo.commits[2].date.day
  /\ histories[Last][465].date = repo.commits[1].date.day

\* C6: in a catalog whose versions all have an override date, a release
\* without changelog document, the most recent one included, makes no call
\* of GetChangelog fail.
C6_MissingChangelogIsNoError ==
  (/\ status = "running"
   /\ pc \in {"PrintSdkVersions", "AddSdkVersions"}
   /\ i <= Len(versions)
   /\ \A v \in files : v \in DOMAIN knownSdkDates
   /\ \E v \in files : ~StagedDoc(v).present)
    => ~GetChangelog(versions[i]).raised

\* the message the entry of version in the most recent release's changelog
\* gives: its lines, a blank line after the first when a second exists, a
\* blank line, the md5 line, the sha1 line
ExpectedMessage(version) ==
  LET body == ReadHistory(StagedDoc(Last).lines, files).entries[version].log
  IN (IF Len(body) > 1 THEN <<body[1], BlankLine>> \o Tail(body) ELSE body)
     \o <<BlankLine, HashLine("md5:", version), HashLine("sha1:", version)>>

\* C7: every call of GetChangelog in a run, for a version with an entry in
\* the most recent release's history, returns the message that entry gives.
C7_ChangelogSameOnEveryCall ==
  \A c \in calls :
    (/\ StagedDoc(Last).present
     /\ c.version \in DOMAIN ReadHistory(StagedDoc(Last).lines, files).entries)
      => c.msg = ExpectedMessage(c.version)

\* C8: when all headings of a changelog name catalog versions, ReadHistory
\* returns and records exactly one entry per subject with a heading before
\* the banner: the date of the last such heading, and as body the lines from
\* that heading to the next heading, the banner or the end, the indentation
\* they share removed.
C8_ReadHistoryEntries ==
  \A k \in 1..Len(versions) :
    LET v == versions[k]
        h == StagedLines(v)
    IN (AllHeadingsKnown(h) /\ StagedDoc(v).present)
         => /\ k = i => status = "running"
            /\ k < i =>
                 /\ v \in DOMAIN histories
                 /\ DOMAIN histories[v] = Subjects(h)
                 /\ \A s \in Subjects(h) :
                      /\ histories[v][s].date
                           = historyVersionRe(h[SetMax(HeadsOf(h, s))]).g2
                      /\ SameButCommonIndent(histories[v][s].log,
                                             SegmentOf(h, s))

\* two headings for one subject, an indented entry in progress at the banner
C8_Witness ==
  /\ i > 2
  /\ 1800 \in DOMAIN histories
  /\ LET h == StagedLines(1800)
     IN /\ Len(h) = MaxLines
        /\ AllHeadingsKnown(h)
        /\ Cardinality(HeadsOf(h, 465)) = 2
        /\ Stop(h) = Len(h)
        /\ ~historyVersionRe(h[1]).matched
        /\ Len(histories[1800][465].log) = 2
        /\ histories[1800][465].log # SegmentOf(h, 465)

\* some heading before the banner names a version absent from the catalog,
\* or some catalog version has neither an override date nor a heading in
\* the most recent release's changelog
IntegrityFails ==
  \/ \E v \in files : \E s \in Subjects(StagedLines(v)) : s \notin files
  \/ \E v \in files :
       v \notin DOMAIN knownSdkDates /\ HeadsOf(StagedLines(Last), v) = {}

\* C9: before UpdateRepository, also after an abort there, the destination
\* repository is as the run found it, and a run whose changelog data fails
\* an integrity check neither enters UpdateRepository (whose first step is
\* InitializeRepository) nor ends normally.
C9_ChecksBeforeRepository ==
  /\ pc \in PreUpdate => repo = start.repo
  /\ (Running("InitializeRepository") \/ status = "done") => ~IntegrityFails

C9_Witness ==
  /\ status = "aborted"
  /\ pc = "ReadHistories"
  /\ "Need" \in out
  /\ IntegrityFails
  /\ repo.commits # <<>>
  /\ CommittedVersions # files

\* C10: in runs without --extract-all every staging directory ExtractArchives
\* leaves in place holds the whole archive, and so does every committed tree.
C10_StagingComplete ==
  (status = "running" /\ start.plain /\ pc \notin {"ExtractArchives", "extract"})
    => /\ \A v \in files : staging[v] = "full"
       /\ \A k \in 1..Len(repo.commits) : repo.commits[k].tree.state = "full"

====
